---- MODULE Spec2Model ----
(***************************************************************************)
(* RecruitFlow: the record store (utils/database.py), the match batch and  *)
(* the shortlist / schedule / feedback handlers of the Streamlit pages     *)
(* (app.py), and the scoring call of RecruitingAgent (utils/agents.py).    *)
(*                                                                         *)
(* The specifications share the state:                                     *)
(*   Spec      one browser session; its handlers run one at a time         *)
(*   SpecConc  two sessions run the match batch at the same time           *)
(*   SpecDb    a caller invokes the DatabaseManager methods directly       *)
(*   SpecEmail calls of InterviewScheduler and EmailSender.send_email      *)
(*   SpecJobs  job ingestion from the jobs file and the Add Job form       *)
(*   SpecCvs   bulk resume processing and single-file uploads              *)
(*   SpecList  listings of the matches table by get_matches                *)
(*   SpecStore ingestion, the Add Job form and the match batch, one at a    *)
(*             time, from an empty database                                *)
(***************************************************************************)
EXTENDS Integers, Sequences, FiniteSets, TLC

VARIABLES
    jobs,        \* table jobs: row id = index (AUTOINCREMENT, no DELETE)
    candidates,  \* table candidates: row id = index
    matches,     \* table matches: row id = index
    session,     \* st.session_state of the browser session
    batch,       \* per worker: position inside match_candidates_to_jobs
    runs,        \* observer: 1 once a match-batch run has run to its end
    lastOp,      \* observer: the last direct DatabaseManager call (SpecDb)
    mail,        \* the last call of the email methods: position, inputs,
                 \* result, and the page button that made it
    ingest       \* one ingestion run: position, inputs, extraction calls

vars == <<jobs, candidates, matches, session, batch, runs, lastOp, mail, ingest>>

----------------------------------------------------------------------------
(* Bounds and input domains *)

\* an ingested store holds at most MaxPairs (job, candidate) pairs
MaxPairs == 2
\* rows a direct caller of add_match may insert (SpecDb)
MaxDbMatches == 2

\* SQL NULL / Python None for the text columns, and "no such row" for ids.
NULL == <<>>
NoId == 0

Workers == {1, 2}

\* numeric match_score values the scoring service may answer with: below the
\* range, in the range (a candidate with no fit at all), above the range
ScoreValues == {-5, 0, 137}

\* what the chat completion does for one scoring call
\*   score        a JSON object carrying a numeric match_score
\*   missing      a JSON object without match_score
\*   null_score   a JSON object with "match_score": null
\*   error        the service raised, or the text is not JSON
Responses ==
    [kind : {"score"}, score : ScoreValues]
        \cup [kind : {"missing", "null_score", "error"}, score : {0}]

DateInputs == {"2025-01-10", "2025-01-11"}
TimeInputs == {"10:00"}
FeedbackInputs == {<<"text">>}

\* lower end of st.slider("Minimum Match Score", 0, 100, 50)
SliderMin == 0

----------------------------------------------------------------------------
(* utils/database.py *)

JobRows == [summary : BOOLEAN]

CandidateRows == [extracted_data : BOOLEAN, email : BOOLEAN]

\* an insert that stores the id after the job's
add_match_next_job(ms, job_id, candidate_id, match_score) ==
    Append(ms, [job_id |-> job_id + 1,
                candidate_id |-> candidate_id,
                match_score |-> match_score,
                is_shortlisted |-> FALSE,
                interview_scheduled |-> FALSE,
                interview_date |-> NULL,
                feedback |-> NULL])

\* INSERT INTO matches (job_id, candidate_id, match_score): the other
\* columns take their defaults.
add_match(ms, job_id, candidate_id, match_score) ==
    Append(ms, [job_id |-> job_id,
                candidate_id |-> candidate_id,
                match_score |-> match_score,
                is_shortlisted |-> FALSE,
                interview_scheduled |-> FALSE,
                interview_date |-> NULL,
                feedback |-> NULL])

\* get_matches with the two WHERE parameters bound the wrong way round
RECURSIVE get_matches_swapped(_, _, _)
get_matches_swapped(ms, job_id, candidate_id) ==
    IF ms = <<>> THEN <<>>
    ELSE LET rest == get_matches_swapped(Tail(ms), job_id, candidate_id)
         IN  IF Head(ms).job_id = candidate_id /\ Head(ms).candidate_id = job_id
             THEN <<Head(ms)>> \o rest
             ELSE rest

\* get_matches(job_id, candidate_id) with both ids given: the rows of the pair
RECURSIVE get_matches(_, _, _)
get_matches(ms, job_id, candidate_id) ==
    IF ms = <<>> THEN <<>>
    ELSE LET rest == get_matches(Tail(ms), job_id, candidate_id)
         IN  IF Head(ms).job_id = job_id /\ Head(ms).candidate_id = candidate_id
             THEN <<Head(ms)>> \o rest
             ELSE rest

\* the rows of a SELECT over matches, each with its id, from row i on;
\* created_at is read only by the listings below
RECURSIVE select_matches(_, _)
select_matches(ms, i) ==
    IF i > Len(ms) THEN <<>>
    ELSE <<[id |-> i, job_id |-> ms[i].job_id,
            candidate_id |-> ms[i].candidate_id,
            match_score |-> ms[i].match_score,
            created_at |-> ms[i].created_at]>> \o select_matches(ms, i + 1)

\* WHERE / JOIN ... ON: the rows of a listing that pass a test
RECURSIVE where_rows(_, _, _)
where_rows(rows, col, ids) ==
    IF rows = <<>> THEN <<>>
    ELSE (IF Head(rows)[col] \in ids THEN <<Head(rows)>> ELSE <<>>)
             \o where_rows(Tail(rows), col, ids)

\* ORDER BY col DESC: rows with equal keys keep the order of their ids
RECURSIVE insert_desc(_, _, _)
insert_desc(sorted, r, col) ==
    IF sorted = <<>> THEN <<r>>
    ELSE IF Head(sorted)[col] >= r[col]
    THEN <<Head(sorted)>> \o insert_desc(Tail(sorted), r, col)
    ELSE <<r>> \o sorted

RECURSIVE order_by_desc(_, _)
order_by_desc(rows, col) ==
    IF rows = <<>> THEN <<>>
    ELSE insert_desc(order_by_desc(SubSeq(rows, 1, Len(rows) - 1), col),
                     rows[Len(rows)], col)

\* get_matches(job_id=...): JOIN candidates, ORDER BY m.match_score DESC
get_matches_by_job(ms, cs, job_id) ==
    order_by_desc(
        where_rows(where_rows(select_matches(ms, 1), "candidate_id", DOMAIN cs),
                   "job_id", {job_id}),
        "match_score")

\* get_matches(candidate_id=...): JOIN jobs, ORDER BY m.match_score DESC
get_matches_by_candidate(ms, js, candidate_id) ==
    order_by_desc(
        where_rows(where_rows(select_matches(ms, 1), "job_id", DOMAIN js),
                   "candidate_id", {candidate_id}),
        "match_score")

\* get_matches(): JOIN jobs, JOIN candidates, ORDER BY m.created_at DESC
get_matches_all(ms, js, cs) ==
    order_by_desc(
        where_rows(where_rows(select_matches(ms, 1), "job_id", DOMAIN js),
                   "candidate_id", DOMAIN cs),
        "created_at")

\* an update that flips the column instead of storing the argument
update_shortlist_status_toggle(ms, match_id, is_shortlisted) ==
    IF match_id \in DOMAIN ms
    THEN [ms EXCEPT ![match_id].is_shortlisted = ~ms[match_id].is_shortlisted]
    ELSE ms

\* UPDATE matches SET is_shortlisted = ? WHERE id = ?
update_shortlist_status(ms, match_id, is_shortlisted) ==
    IF match_id \in DOMAIN ms
    THEN [ms EXCEPT ![match_id].is_shortlisted = is_shortlisted]
    ELSE ms

\* an update that sets the flag and forgets the date column
schedule_interview_flag_only(ms, match_id, interview_date) ==
    IF match_id \in DOMAIN ms
    THEN [ms EXCEPT ![match_id].interview_scheduled = TRUE]
    ELSE ms

\* UPDATE matches SET interview_scheduled = TRUE, interview_date = ? WHERE id = ?
schedule_interview(ms, match_id, interview_date) ==
    IF match_id \in DOMAIN ms
    THEN [ms EXCEPT ![match_id].interview_scheduled = TRUE,
                    ![match_id].interview_date = interview_date]
    ELSE ms

\* an update that rewrites the whole row from its defaults
add_feedback_whole_row(ms, match_id, feedback) ==
    IF match_id \in DOMAIN ms
    THEN [ms EXCEPT ![match_id].feedback = feedback,
                    ![match_id].is_shortlisted = FALSE,
                    ![match_id].interview_scheduled = FALSE,
                    ![match_id].interview_date = NULL]
    ELSE ms

\* UPDATE matches SET feedback = ? WHERE id = ?
add_feedback(ms, match_id, feedback) ==
    IF match_id \in DOMAIN ms
    THEN [ms EXCEPT ![match_id].feedback = feedback]
    ELSE ms

----------------------------------------------------------------------------
(* utils/agents.py: RecruitingAgent.calculate_match_score *)

\* The dict the method returns: has_key is 'match_score' in dict, is_null is
\* dict['match_score'] is None.  The except branch returns {"match_score": 0.0}.
calculate_match_score(resp) ==
    CASE resp.kind = "score" ->
            [has_key |-> TRUE, is_null |-> FALSE, match_score |-> resp.score]
      [] resp.kind = "missing" ->
            [has_key |-> FALSE, is_null |-> FALSE, match_score |-> 0]
      [] resp.kind = "null_score" ->
            [has_key |-> TRUE, is_null |-> TRUE, match_score |-> 0]
      [] OTHER ->
            [has_key |-> TRUE, is_null |-> FALSE, match_score |-> 0]

----------------------------------------------------------------------------
(* app.py: match_candidates_to_jobs *)

IdleBatch == [pc |-> "idle", ji |-> 0, ci |-> 0, startLen |-> 0, calls |-> {}]

AllIdle == \A w \in Workers : batch[w].pc = "idle"

\* a job loop without the summary test
NextJobAny(j) == j

\* for job in jobs: ... if not job_summary: continue
\* get_jobs() lists the newest row first; the next job at or below j that
\* has a summary, 0 when there is none.
RECURSIVE NextJob(_)
NextJob(j) ==
    IF j = 0 THEN 0
    ELSE IF jobs[j].summary THEN j
    ELSE NextJob(j - 1)

\* the loop position after the pair (ji, ci)
Advance(b) ==
    IF b.ci > 1
    THEN [b EXCEPT !.pc = "check", !.ci = b.ci - 1]
    ELSE LET nj == NextJob(b.ji - 1)
         IN  IF nj = 0
             THEN [b EXCEPT !.pc = "done"]
             ELSE [b EXCEPT !.pc = "check", !.ji = nj, !.ci = Len(candidates)]

\* a batch that never finds an existing match
pair_exists_never(ms, job_id, candidate_id) == FALSE

\* if existing_matches: continue
pair_exists(ms, job_id, candidate_id) ==
    get_matches(ms, job_id, candidate_id) # <<>>

\* the button is offered once both session flags are set; the run reads both
\* tables and returns at once when one is empty
BatchStart(w) ==
    /\ batch[w].pc = "idle"
    /\ session.jobs_loaded /\ session.candidates_processed
    /\ IF jobs = <<>> \/ candidates = <<>>
       THEN UNCHANGED batch
       ELSE LET j0 == NextJob(Len(jobs))
                b0 == [IdleBatch EXCEPT !.startLen = Len(matches)]
            IN  batch' = [batch EXCEPT ![w] =
                    IF j0 = 0
                    THEN [b0 EXCEPT !.pc = "done"]
                    ELSE [b0 EXCEPT !.pc = "check", !.ji = j0,
                                    !.ci = Len(candidates)]]
    /\ UNCHANGED <<jobs, candidates, matches, session, runs, lastOp, mail, ingest>>

\* the existence check and the candidate-data check of one pair
BatchCheck(w) ==
    /\ batch[w].pc = "check"
    /\ LET b == batch[w]
       IN  batch' = [batch EXCEPT ![w] =
               IF pair_exists(matches, b.ji, b.ci) THEN Advance(b)
               ELSE IF ~candidates[b.ci].extracted_data THEN Advance(b)
               ELSE [b EXCEPT !.pc = "score"]]
    /\ UNCHANGED <<jobs, candidates, matches, session, runs, lastOp, mail, ingest>>

\* the scoring call and the insert that follows it; add_match with a NULL
\* score violates NOT NULL and the exception ends the run
BatchScore(w) ==
    /\ batch[w].pc = "score"
    /\ \E resp \in Responses :
        LET b == batch[w]
            match_result == calculate_match_score(resp)
            called == [b EXCEPT !.calls = b.calls \cup
                          {[job_id |-> b.ji, candidate_id |-> b.ci,
                            kind |-> resp.kind]}]
        IN  IF match_result.has_key
            THEN IF match_result.is_null
                 THEN /\ batch' = [batch EXCEPT ![w] =
                                      [called EXCEPT !.pc = "failed"]]
                      /\ UNCHANGED matches
                 ELSE /\ matches' = add_match(matches, b.ji, b.ci,
                                              match_result.match_score)
                      /\ batch' = [batch EXCEPT ![w] = Advance(called)]
            ELSE /\ batch' = [batch EXCEPT ![w] = Advance(called)]
                 /\ UNCHANGED matches
    /\ UNCHANGED <<jobs, candidates, session, runs, lastOp, mail, ingest>>

\* the run returns: "Matching completed successfully!" or st.error(...)
BatchFinish(w) ==
    /\ batch[w].pc \in {"done", "failed"}
    /\ batch' = [batch EXCEPT ![w] = IdleBatch]
    /\ runs' = IF batch[w].pc = "done" THEN 1 ELSE runs
    /\ UNCHANGED <<jobs, candidates, matches, session, lastOp, mail, ingest>>

----------------------------------------------------------------------------
(* utils/agents.py: InterviewScheduler.generate_interview_email, by outcome *)

\* what generation and dispatch can do for a candidate: the transport is
\* only called when the candidate has an address
EmailOutcomes(candidate_id) ==
    {"ok", "generation_failed"}
        \cup (IF candidates[candidate_id].email THEN {"send_failed"} ELSE {})

\* the dict the method returns
generate_interview_email(outcome) ==
    [success |-> outcome = "ok",
     email_content |-> outcome # "generation_failed"]

NoRecipient == [tag |-> "none", val |-> <<>>]

NoResult == [success |-> FALSE, error |-> FALSE, email_content |-> NULL]

\* the record of one scheduler call: its progress, what it was given and
\* what it did; for a call made by a page also the button that made it, the
\* match it is about and that match's interview_scheduled in the store at
\* the moment of the call
IdleMail ==
    [pc |-> "idle", op |-> "none", recipient |-> NoRecipient,
     answers |-> <<>>, content |-> NULL, handed |-> 0, smtp |-> 0,
     transport |-> "none", result |-> NoResult, raised |-> "none",
     caller |-> "none", match_id |-> NoId, scheduled_in_store |-> FALSE]

\* a page's call of generate_interview_email, once it has returned: the
\* transport is invoked when content was generated and the candidate has an
\* address
invitation_call(caller, store, match_id, outcome) ==
    [IdleMail EXCEPT
        !.pc = "returned",
        !.op = "generate_interview_email",
        !.caller = caller,
        !.match_id = match_id,
        !.scheduled_in_store = store[match_id].interview_scheduled,
        !.handed = IF outcome # "generation_failed"
                      /\ candidates[store[match_id].candidate_id].email
                   THEN 1 ELSE 0,
        !.result = [NoResult EXCEPT
                       !.success = generate_interview_email(outcome).success,
                       !.error = ~generate_interview_email(outcome).success]]

----------------------------------------------------------------------------
(* app.py: the Matching Results page *)

\* interview_datetime = f"{interview_date} {interview_time}"
FormatDatetime(d, t) == <<d, t>>

\* the match can be picked in "Select a match to view details": it passes
\* the minimum-score filter for some position of the slider
Selectable(match_id) ==
    /\ match_id \in DOMAIN matches
    /\ matches[match_id].match_score >= SliderMin

\* the "Shortlist Candidate" button is drawn for a match not yet shortlisted
ShortlistOffered(match_id) == ~matches[match_id].is_shortlisted

\* the value the button passes to update_shortlist_status
ShortlistButtonValue == TRUE

\* a button drawn for every match that flips the flag
ShortlistCandidateToggle(match_id) ==
    /\ AllIdle
    /\ Selectable(match_id)
    /\ matches' = update_shortlist_status(matches, match_id,
                                          ~matches[match_id].is_shortlisted)
    /\ UNCHANGED <<jobs, candidates, session, batch, runs, lastOp, mail, ingest>>

ShortlistCandidate(match_id) ==
    /\ AllIdle
    /\ Selectable(match_id)
    /\ ShortlistOffered(match_id)
    /\ matches' = update_shortlist_status(matches, match_id, ShortlistButtonValue)
    /\ UNCHANGED <<jobs, candidates, session, batch, runs, lastOp, mail, ingest>>

\* the form drawn without looking at is_shortlisted
ScheduleOfferedUnguarded(match_id) == ~matches[match_id].interview_scheduled

\* schedule_interview_form is drawn for a shortlisted match with no interview
ScheduleOffered(match_id) ==
    /\ matches[match_id].is_shortlisted
    /\ ~matches[match_id].interview_scheduled

\* a form that writes its note whatever the email step reports
ScheduleFromResultsNoteAlways(match_id) ==
    /\ AllIdle
    /\ Selectable(match_id)
    /\ ScheduleOffered(match_id)
    /\ \E d \in DateInputs, t \in TimeInputs,
          outcome \in EmailOutcomes(matches[match_id].candidate_id) :
        LET interview_datetime == FormatDatetime(d, t)
            scheduled == schedule_interview(matches, match_id, interview_datetime)
        IN  /\ matches' = add_feedback(scheduled, match_id,
                         <<"Interview scheduled for", d, t, "Email sent: subject">>)
            /\ mail' = invitation_call("results", scheduled, match_id, outcome)
    /\ UNCHANGED <<jobs, candidates, session, batch, runs, lastOp, ingest>>

\* "Schedule Interview": the schedule write, then the email, then the
\* activity note when the email step reports success
ScheduleFromResults(match_id) ==
    /\ AllIdle
    /\ Selectable(match_id)
    /\ ScheduleOffered(match_id)
    /\ \E d \in DateInputs, t \in TimeInputs,
          outcome \in EmailOutcomes(matches[match_id].candidate_id) :
        LET interview_datetime == FormatDatetime(d, t)
            scheduled == schedule_interview(matches, match_id, interview_datetime)
            email_result == generate_interview_email(outcome)
        IN  /\ matches' =
                IF email_result.success
                THEN add_feedback(scheduled, match_id,
                         <<"Interview scheduled for", d, t, "Email sent: subject">>)
                ELSE scheduled
            /\ mail' = invitation_call("results", scheduled, match_id, outcome)
    /\ UNCHANGED <<jobs, candidates, session, batch, runs, lastOp, ingest>>

----------------------------------------------------------------------------
(* app.py: the Interview Scheduling page *)

\* the page lists the shortlisted matches; "Schedule Interview" is drawn for
\* one with no interview and stores the selection in the session
SelectForScheduling(match_id) ==
    /\ AllIdle
    /\ match_id \in DOMAIN matches
    /\ matches[match_id].is_shortlisted
    /\ ~matches[match_id].interview_scheduled
    /\ session' = [session EXCEPT !.schedule_match_id = match_id]
    /\ UNCHANGED <<jobs, candidates, matches, batch, runs, lastOp, mail, ingest>>

\* a submit that writes the schedule only when the email step succeeded
SubmitScheduleAfterEmail ==
    /\ AllIdle
    /\ session.schedule_match_id # NoId
    /\ \E d \in DateInputs, t \in TimeInputs,
          outcome \in EmailOutcomes(matches[session.schedule_match_id].candidate_id) :
        LET match_id == session.schedule_match_id
            email_result == generate_interview_email(outcome)
        IN  /\ matches' =
                IF email_result.success
                THEN add_feedback(
                         schedule_interview(matches, match_id, FormatDatetime(d, t)),
                         match_id,
                         <<"Interview scheduled for", d, t, "Email sent to candidate.">>)
                ELSE matches
            /\ session' =
                IF email_result.success \/ email_result.email_content
                THEN [session EXCEPT !.schedule_match_id = NoId]
                ELSE session
            /\ mail' = invitation_call("scheduling", matches, match_id, outcome)
    /\ UNCHANGED <<jobs, candidates, batch, runs, lastOp, ingest>>

\* "Schedule & Send Invitation" for the selection kept in the session.  With
\* no generated content the error branch raises on None.get and the
\* selection stays in the session; otherwise it is deleted.
SubmitSchedule ==
    /\ AllIdle
    /\ session.schedule_match_id # NoId
    /\ \E d \in DateInputs, t \in TimeInputs,
          outcome \in EmailOutcomes(matches[session.schedule_match_id].candidate_id) :
        LET match_id == session.schedule_match_id
            interview_datetime == FormatDatetime(d, t)
            scheduled == schedule_interview(matches, match_id, interview_datetime)
            email_result == generate_interview_email(outcome)
        IN  /\ matches' =
                IF email_result.success
                THEN add_feedback(scheduled, match_id,
                         <<"Interview scheduled for", d, t, "Email sent to candidate.">>)
                ELSE scheduled
            /\ session' =
                IF email_result.success \/ email_result.email_content
                THEN [session EXCEPT !.schedule_match_id = NoId]
                ELSE session
            /\ mail' = invitation_call("scheduling", scheduled, match_id, outcome)
    /\ UNCHANGED <<jobs, candidates, batch, runs, lastOp, ingest>>

\* a "View Details" button drawn for every match
ViewDetailsAny(match_id) ==
    /\ AllIdle
    /\ match_id \in DOMAIN matches
    /\ session' = [session EXCEPT !.view_match_id = match_id]
    /\ UNCHANGED <<jobs, candidates, matches, batch, runs, lastOp, mail, ingest>>

\* "View Details" is drawn for a shortlisted match with an interview
ViewDetails(match_id) ==
    /\ AllIdle
    /\ match_id \in DOMAIN matches
    /\ matches[match_id].is_shortlisted
    /\ matches[match_id].interview_scheduled
    /\ session' = [session EXCEPT !.view_match_id = match_id]
    /\ UNCHANGED <<jobs, candidates, matches, batch, runs, lastOp, mail, ingest>>

\* a resend button drawn for the pending selection
ResendForSelection ==
    /\ AllIdle
    /\ session.schedule_match_id # NoId
    /\ candidates[matches[session.schedule_match_id].candidate_id].email
    /\ \E outcome \in EmailOutcomes(matches[session.schedule_match_id].candidate_id) :
        mail' = invitation_call("resend", matches, session.schedule_match_id, outcome)
    /\ UNCHANGED <<jobs, candidates, matches, session, batch, runs, lastOp, ingest>>

\* "Resend Interview Invitation" for the match being viewed, when the
\* candidate has an address: a generate call and nothing else (the failure
\* branch ends in a NameError on prompt, after the call)
ResendInvitation ==
    /\ AllIdle
    /\ session.view_match_id # NoId
    /\ candidates[matches[session.view_match_id].candidate_id].email
    /\ \E outcome \in EmailOutcomes(matches[session.view_match_id].candidate_id) :
        mail' = invitation_call("resend", matches, session.view_match_id, outcome)
    /\ UNCHANGED <<jobs, candidates, matches, session, batch, runs, lastOp, ingest>>

\* add_feedback_form: "Save Feedback" for the match being viewed
SaveFeedback ==
    /\ AllIdle
    /\ session.view_match_id # NoId
    /\ \E feedback \in FeedbackInputs :
        matches' = add_feedback(matches, session.view_match_id, feedback)
    /\ UNCHANGED <<jobs, candidates, session, batch, runs, lastOp, mail, ingest>>

\* "Back to list"
BackToList ==
    /\ AllIdle
    /\ session.view_match_id # NoId
    /\ session' = [session EXCEPT !.view_match_id = NoId]
    /\ UNCHANGED <<jobs, candidates, matches, batch, runs, lastOp, mail, ingest>>

----------------------------------------------------------------------------
(* utils/email_sender.py: EmailSender *)

\* longest recipient string and longest recipient list of a call
MaxRecipientLen == 2
MaxRecipientList == 2

\* the characters of a recipient string: "a" stands for any character of an
\* address, the others are the separator and white space
Chars == {"a", ",", " "}

RECURSIVE StringsUpTo(_)
StringsUpTo(n) ==
    IF n = 0 THEN {<<>>}
    ELSE LET shorter == StringsUpTo(n - 1)
         IN  shorter \cup {Append(s, ch) : s \in shorter, ch \in Chars}

RECURSIVE ListsUpTo(_, _)
ListsUpTo(S, n) ==
    IF n = 0 THEN {<<>>}
    ELSE LET shorter == ListsUpTo(S, n - 1)
         IN  shorter \cup {Append(l, x) : l \in shorter, x \in S}

\* recipient_email: None, a str or a list of str
RecipientInputs ==
    {[tag |-> "none", val |-> <<>>]}
        \cup [tag : {"str"}, val : StringsUpTo(MaxRecipientLen)]
        \cup [tag : {"list"}, val : ListsUpTo(StringsUpTo(1), MaxRecipientList)]

\* str.lstrip() / str.rstrip() / str.strip() for the blank
RECURSIVE lstrip(_)
lstrip(s) ==
    IF s = <<>> THEN <<>>
    ELSE IF Head(s) = " " THEN lstrip(Tail(s))
    ELSE s

RECURSIVE rstrip(_)
rstrip(s) ==
    IF s = <<>> THEN <<>>
    ELSE IF s[Len(s)] = " " THEN rstrip(SubSeq(s, 1, Len(s) - 1))
    ELSE s

strip(s) == rstrip(lstrip(s))

\* str.split(","): always at least one part, empty parts are kept
RECURSIVE split(_)
split(s) ==
    IF s = <<>> THEN << <<>> >>
    ELSE LET rest == split(Tail(s))
         IN  IF Head(s) = ","
             THEN << <<>> >> \o rest
             ELSE << <<Head(s)>> \o Head(rest) >> \o Tail(rest)

\* [email.strip() for email in parts if email.strip()]
RECURSIVE strip_nonblank(_)
strip_nonblank(parts) ==
    IF parts = <<>> THEN <<>>
    ELSE LET rest == strip_nonblank(Tail(parts))
         IN  IF strip(Head(parts)) # <<>>
             THEN <<strip(Head(parts))>> \o rest
             ELSE rest

\* a normalisation that keeps blank parts
normalize_recipients_keep_blank(recipients) ==
    IF recipients.tag = "str" THEN split(recipients.val)
    ELSE IF recipients.tag = "list" THEN recipients.val
    ELSE <<>>

\* EmailSender._normalize_recipients
normalize_recipients(recipients) ==
    IF recipients.tag = "str" THEN strip_nonblank(split(recipients.val))
    ELSE IF recipients.tag = "list" THEN strip_nonblank(recipients.val)
    ELSE <<>>

SmtpOutcomes == {"sent", "smtp_error"}

\* EmailSender.send_email: ValueError before anything else when no recipient
\* is left; otherwise one SMTP connection, whose errors are all caught and
\* turned into the return value False
send_email(recipient_email, smtp_outcome) ==
    IF normalize_recipients(recipient_email) = <<>>
    THEN [raised |-> "ValueError", connections |-> 0, returned |-> FALSE]
    ELSE [raised |-> "none", connections |-> 1,
          returned |-> smtp_outcome = "sent"]

----------------------------------------------------------------------------
(* utils/agents.py: InterviewScheduler, one call step by step *)

\* self.max_retries
max_retries == 3

\* what one chat completion of _generate_email_template yields
\*   valid            a JSON object with subject and body
\*   missing_subject  a JSON object without subject
\*   missing_body     a JSON object without body
\*   unparseable      text that json.loads rejects
\*   service_error    the completion call raised
GenAnswers ==
    {"valid", "missing_subject", "missing_body", "unparseable", "service_error"}

\* json.loads succeeded and all(field in email_content for field in required)
valid_email_content(answer) == answer = "valid"

GenerateOps == {"generate_interview_email", "generate_rejection_email"}

\* a retry loop that gives up one failure later
last_attempt_late(attempt) == attempt = max_retries

\* if attempt == self.max_retries - 1
last_attempt(attempt) == attempt = max_retries - 1

\* if candidate_email: a non-empty str or a non-empty list
truthy(candidate_email) == candidate_email.val # <<>>

\* a caller that sends whatever the recipient is
send_wanted_always(candidate_email) == TRUE

\* "Send email if recipient provided"
send_wanted(candidate_email) == truthy(candidate_email)

\* a helper that drops the content when the transport fails
scheduler_send_email_drop(email_content, sent) ==
    IF sent.raised = "none" /\ sent.returned
    THEN [success |-> TRUE, error |-> FALSE, email_content |-> NULL]
    ELSE [success |-> FALSE, error |-> TRUE, email_content |-> NULL]

\* InterviewScheduler._send_email around the outcome of send_email:
\* {'success': True} when it returned True, otherwise success False with an
\* error and the content it was given; an exception is caught
scheduler_send_email(email_content, sent) ==
    IF sent.raised = "none" /\ sent.returned
    THEN [success |-> TRUE, error |-> FALSE, email_content |-> NULL]
    ELSE [success |-> FALSE, error |-> TRUE, email_content |-> email_content]

\* the match_details that reach _generate_email_template: a dict from
\* generate_interview_email (None is replaced by {}), the default None from
\* generate_rejection_email, which passes no match_details
match_details_given(op) == op = "generate_interview_email"

\* templates = {...}: both prompts are formatted when the dict is built, and
\* the interview prompt reads match_details.get(...), an AttributeError
\* when match_details is None
templates_raise(match_details) == ~match_details

\* generate_interview_email / generate_rejection_email is called, up to the
\* first iteration of the retry loop
GenerateEmailCall ==
    /\ mail.pc \in {"idle", "returned"}
    /\ \E op \in GenerateOps, candidate_email \in RecipientInputs :
        mail' = IF templates_raise(match_details_given(op))
                THEN [IdleMail EXCEPT !.pc = "returned", !.op = op,
                                      !.recipient = candidate_email,
                                      !.raised = "AttributeError"]
                ELSE [IdleMail EXCEPT !.pc = "generate", !.op = op,
                                      !.recipient = candidate_email]
    /\ UNCHANGED <<jobs, candidates, matches, session, batch, runs, lastOp, ingest>>

\* one iteration of "for attempt in range(self.max_retries)", and the
\* caller's test of the result when the loop returns
GenerateAttempt ==
    /\ mail.pc = "generate"
    /\ \E answer \in GenAnswers :
        LET attempt == Len(mail.answers)
            tried == [mail EXCEPT !.answers = Append(mail.answers, answer)]
            email_content == [attempt |-> attempt + 1]
        IN  mail' =
                IF valid_email_content(answer)
                THEN IF send_wanted(mail.recipient)
                     THEN [tried EXCEPT !.pc = "send", !.content = email_content]
                     ELSE [tried EXCEPT !.pc = "returned",
                                        !.content = email_content,
                                        !.result = [success |-> TRUE,
                                                    error |-> FALSE,
                                                    email_content |-> email_content]]
                ELSE IF last_attempt(attempt)
                     THEN [tried EXCEPT !.pc = "returned",
                                        !.result = [success |-> FALSE,
                                                    error |-> TRUE,
                                                    email_content |-> NULL]]
                     ELSE tried
    /\ UNCHANGED <<jobs, candidates, matches, session, batch, runs, lastOp, ingest>>

\* self._send_email(...) and the return that follows it
SendGenerated ==
    /\ mail.pc = "send"
    /\ \E smtp_outcome \in SmtpOutcomes :
        LET sent == send_email(mail.recipient, smtp_outcome)
            send_result == scheduler_send_email(mail.content, sent)
        IN  mail' = [mail EXCEPT
                !.pc = "returned",
                !.handed = mail.handed + 1,
                !.smtp = mail.smtp + sent.connections,
                !.transport = IF sent.raised # "none" THEN sent.raised
                              ELSE smtp_outcome,
                !.result = IF ~send_result.success
                           THEN send_result
                           ELSE [success |-> TRUE, error |-> FALSE,
                                 email_content |-> mail.content]]
    /\ UNCHANGED <<jobs, candidates, matches, session, batch, runs, lastOp, ingest>>

\* EmailSender.send_email called by itself
SendEmailDirect ==
    /\ mail.pc \in {"idle", "returned"}
    /\ \E recipient_email \in RecipientInputs, smtp_outcome \in SmtpOutcomes :
        LET sent == send_email(recipient_email, smtp_outcome)
        IN  mail' = [IdleMail EXCEPT
                !.pc = "returned", !.op = "send_email",
                !.recipient = recipient_email,
                !.handed = 1,
                !.smtp = sent.connections,
                !.transport = IF sent.raised # "none" THEN sent.raised
                              ELSE smtp_outcome,
                !.result = [NoResult EXCEPT !.success = sent.returned],
                !.raised = sent.raised]
    /\ UNCHANGED <<jobs, candidates, matches, session, batch, runs, lastOp, ingest>>

----------------------------------------------------------------------------
(* app.py: job ingestion (load_jobs_from_file, the "Add Job" form) *)

\* job objects of data/jobs.json, jobs typed into the form, completed
\* ingestion runs that are counted
MaxFileJobs == 2
MaxFormJobs == 1
MaxLoads == 2

\* PDF names of the CVs folder, single-file uploads
MaxFiles == 2
MaxUploads == 1

\* job titles: two that differ in case only
Titles == {"Dev", "dev"}

Paths == 1..MaxFiles

\* the state of one file name of the CVs folder: no such file, a PDF whose
\* text has a line that passes for a name, a PDF whose text has none, a file
\* that neither reader can open
FileStates == {"absent", "pdf", "nameless", "corrupt"}

IdleIngest ==
    [pc |-> "idle", op |-> "none",
     file |-> <<>>, folder |-> [cv_path \in Paths |-> "absent"],
     items |-> <<>>, pos |-> 0, startLen |-> 0, calls |-> {},
     service_calls |-> 0, last |-> "none", loads |-> 0]

FreshSession ==
    [jobs_loaded |-> FALSE, candidates_processed |-> FALSE,
     schedule_match_id |-> NoId, view_match_id |-> NoId]

\* INSERT INTO jobs (title, description, summary); via records the handler
\* that made the call
add_job(js, title, summary, via) ==
    Append(js, [title |-> title, summary |-> summary, via |-> via])

\* str.lower() on the titles
lower(title) == IF title = "Dev" THEN "dev" ELSE title

\* a comparison that ignores case
title_exists_folded(js, title) ==
    \E i \in DOMAIN js : lower(js[i].title) = lower(title)

\* any(j['title'] == job['title'] for j in existing_job)
title_exists(js, title) ==
    \E i \in DOMAIN js : js[i].title = title

\* summarize_job_description returns the summary or None; add_job may fail
JobOutcomes == {"summary", "no_summary", "storage_error"}

\* JobDescriptionSummarizer.summarize_job_description: one completion call;
\* the except branch returns None
summarize_job_description(outcome) ==
    [service_calls |-> 1, summary |-> outcome = "summary"]

\* the run's record after its item at pos: the next item, or the end of the
\* loop
IngestAdvance(g) ==
    IF g.pos < Len(g.items)
    THEN [g EXCEPT !.pos = g.pos + 1]
    ELSE [g EXCEPT !.pc = "done",
                   !.loads = IF g.loads < MaxLoads THEN g.loads + 1 ELSE g.loads]

\* "Load Jobs from JSON": offered while the session flag is unset
LoadJobsStart ==
    /\ ingest.pc # "run"
    /\ ~session.jobs_loaded
    /\ LET g == [ingest EXCEPT !.op = "load_jobs", !.items = ingest.file,
                               !.pos = 1, !.startLen = Len(jobs),
                               !.calls = {}, !.service_calls = 0,
                               !.last = "none"]
       IN  IF ingest.file = <<>>
           THEN /\ ingest' = IngestAdvance(g)
                /\ session' = [session EXCEPT !.jobs_loaded = TRUE]
           ELSE /\ ingest' = [g EXCEPT !.pc = "run"]
                /\ UNCHANGED session
    /\ UNCHANGED <<jobs, candidates, matches, batch, runs, lastOp, mail>>

\* one iteration of "for job in jobs", and the lines after the loop when it
\* was the last one; an exception leaves the loop and the flag unset
LoadJobsItem ==
    /\ ingest.pc = "run"
    /\ ingest.op = "load_jobs"
    /\ \E outcome \in JobOutcomes :
        LET title == ingest.items[ingest.pos]
            summary == summarize_job_description(outcome)
            called == [ingest EXCEPT
                          !.calls = ingest.calls \cup {title},
                          !.service_calls =
                              ingest.service_calls + summary.service_calls,
                          !.last = IF summary.summary THEN "extracted"
                                   ELSE "absent"]
        IN  IF title_exists(jobs, title)
            THEN /\ ingest' = IngestAdvance([ingest EXCEPT !.last = "skipped"])
                 /\ session' = [session EXCEPT
                        !.jobs_loaded = (ingest.pos = Len(ingest.items))]
                 /\ UNCHANGED jobs
            ELSE IF outcome = "storage_error"
            THEN /\ ingest' = [called EXCEPT !.pc = "failed",
                                             !.last = "storage_error"]
                 /\ UNCHANGED <<jobs, session>>
            ELSE /\ jobs' = add_job(jobs, title, summary.summary, "file")
                 /\ ingest' = IngestAdvance(called)
                 /\ session' = [session EXCEPT
                        !.jobs_loaded = (ingest.pos = Len(ingest.items))]
    /\ UNCHANGED <<candidates, matches, batch, runs, lastOp, mail>>

\* "Add Job": no look at the titles already stored
AddJobForm ==
    /\ ingest.pc # "run"
    /\ Cardinality({i \in DOMAIN jobs : jobs[i].via = "form"}) < MaxFormJobs
    /\ \E title \in Titles, outcome \in JobOutcomes \ {"storage_error"} :
        jobs' = add_job(jobs, title,
                        summarize_job_description(outcome).summary, "form")
    /\ UNCHANGED <<candidates, matches, session, batch, runs, lastOp, mail, ingest>>

\* a new browser session starts with both flags unset
NewSession ==
    /\ ingest.pc # "run"
    /\ session # FreshSession
    /\ session' = FreshSession
    /\ UNCHANGED <<jobs, candidates, matches, batch, runs, lastOp, mail, ingest>>

----------------------------------------------------------------------------
(* app.py: resume processing (process_candidate_cvs, "Upload New CV") *)

\* INSERT INTO candidates (name, email, phone, cv_path, extracted_data); via
\* records the handler that made the call
add_candidate(cs, cv_path, extracted_data, email, via) ==
    Append(cs, [cv_path |-> cv_path, extracted_data |-> extracted_data,
                email |-> email, via |-> via])

\* a run that never finds a stored path
cv_exists_never(cs, cv_path) == FALSE

\* any(c['cv_path'] == str(pdf_path) for c in existing_candidates)
cv_exists(cs, cv_path) ==
    \E i \in DOMAIN cs : cs[i].cv_path = cv_path

\* list(cvs_folder.glob("*.pdf")), from file name p on
RECURSIVE pdf_files(_, _)
pdf_files(folder, p) ==
    IF p > MaxFiles THEN <<>>
    ELSE (IF folder[p] # "absent" THEN <<p>> ELSE <<>>) \o pdf_files(folder, p + 1)

\* what the text of a readable PDF yields: extract_candidate_data returns
\* the profile or None, the address pattern matches or not
CvOutcomes == [extracted_data : BOOLEAN, email : BOOLEAN]

\* RecruitingAgent.extract_candidate_data: one completion call; the except
\* branch returns None
extract_candidate_data(outcome) ==
    [service_calls |-> 1, extracted_data |-> outcome.extracted_data]

\* "Process Candidate CVs": offered while the session flag is unset; with no
\* PDF in the folder the run warns and returns
ProcessCvsStart ==
    /\ ingest.pc # "run"
    /\ ~session.candidates_processed
    /\ LET files == pdf_files(ingest.folder, 1)
       IN  IF files = <<>>
           THEN UNCHANGED ingest
           ELSE ingest' = [ingest EXCEPT !.pc = "run", !.op = "process_cvs",
                                         !.items = files, !.pos = 1,
                                         !.startLen = Len(candidates),
                                         !.calls = {}, !.service_calls = 0,
                                         !.last = "none"]
    /\ UNCHANGED <<jobs, candidates, matches, session, batch, runs, lastOp, mail>>

\* one iteration of "for i, pdf_path in enumerate(pdf_files)", and the lines
\* after the loop when it was the last one; a PDF that neither reader can
\* open raises out of the loop, and so does the insert of a candidate whose
\* text gave no name (basic_info['name'] is None, the column is NOT NULL)
ProcessCvsItem ==
    /\ ingest.pc = "run"
    /\ ingest.op = "process_cvs"
    /\ \E outcome \in CvOutcomes :
        LET pdf_path == ingest.items[ingest.pos]
            opened == [ingest EXCEPT !.calls = ingest.calls \cup {pdf_path},
                                     !.last = "unreadable"]
            extracted == extract_candidate_data(outcome)
            called == [opened EXCEPT
                          !.service_calls =
                              ingest.service_calls + extracted.service_calls,
                          !.last = IF extracted.extracted_data THEN "extracted"
                                   ELSE "absent"]
        IN  IF cv_exists(candidates, pdf_path)
            THEN /\ ingest' = IngestAdvance([ingest EXCEPT !.last = "skipped"])
                 /\ session' = [session EXCEPT
                        !.candidates_processed = (ingest.pos = Len(ingest.items))]
                 /\ UNCHANGED candidates
            ELSE IF ingest.folder[pdf_path] = "corrupt"
            THEN /\ ingest' = [opened EXCEPT !.pc = "failed"]
                 /\ UNCHANGED <<candidates, session>>
            ELSE IF ingest.folder[pdf_path] = "nameless"
            THEN /\ ingest' = [called EXCEPT !.pc = "failed"]
                 /\ UNCHANGED <<candidates, session>>
            ELSE /\ candidates' = add_candidate(candidates, pdf_path,
                                      extracted.extracted_data, outcome.email, "bulk")
                 /\ ingest' = IngestAdvance(called)
                 /\ session' = [session EXCEPT
                        !.candidates_processed = (ingest.pos = Len(ingest.items))]
    /\ UNCHANGED <<jobs, matches, batch, runs, lastOp, mail>>

\* "Upload New CV": the file is written into the folder, then processed and
\* stored with no look at the paths already stored
UploadCv ==
    /\ ingest.pc # "run"
    /\ Cardinality({i \in DOMAIN candidates : candidates[i].via = "upload"})
           < MaxUploads
    /\ \E file_path \in Paths, content \in FileStates \ {"absent"},
          outcome \in CvOutcomes :
        /\ ingest' = [ingest EXCEPT !.folder[file_path] = content]
        /\ candidates' =
               IF content \in {"corrupt", "nameless"} THEN candidates
               ELSE add_candidate(candidates, file_path,
                        extract_candidate_data(outcome).extracted_data,
                        outcome.email, "upload")
    /\ UNCHANGED <<jobs, matches, session, batch, runs, lastOp, mail>>

----------------------------------------------------------------------------
(* Initial states: an ingested store, no match yet, a session that has     *)
(* loaded the jobs file and processed the CV folder.                       *)

RECURSIVE SeqsUpTo(_, _)
SeqsUpTo(S, n) ==
    IF n = 0 THEN {<<>>}
    ELSE LET shorter == SeqsUpTo(S, n - 1)
         IN  shorter \cup {Append(s, x) : s \in shorter, x \in S}

NoOp == [op |-> "none", match_id |-> NoId, value |-> FALSE,
         was_shortlisted |-> FALSE, raised |-> "none"]

StoreTables ==
    {<<js, cs>> \in SeqsUpTo(JobRows, MaxPairs) \X SeqsUpTo(CandidateRows, MaxPairs) :
        Len(js) * Len(cs) <= MaxPairs}

Init ==
    /\ \E tables \in StoreTables :
        /\ jobs = tables[1]
        /\ candidates = tables[2]
    /\ matches = <<>>
    /\ session = [jobs_loaded |-> TRUE, candidates_processed |-> TRUE,
                  schedule_match_id |-> NoId, view_match_id |-> NoId]
    /\ batch = [w \in Workers |-> IdleBatch]
    /\ runs = 0
    /\ lastOp = NoOp
    /\ mail = IdleMail
    /\ ingest = IdleIngest

\* one session: a handler runs to its end before the next one starts
Next ==
    \/ BatchStart(1)
    \/ BatchCheck(1)
    \/ BatchScore(1)
    \/ BatchFinish(1)
    \/ \E match_id \in DOMAIN matches : ShortlistCandidate(match_id)
    \/ \E match_id \in DOMAIN matches : ScheduleFromResults(match_id)
    \/ \E match_id \in DOMAIN matches : SelectForScheduling(match_id)
    \/ SubmitSchedule
    \/ \E match_id \in DOMAIN matches : ViewDetails(match_id)
    \/ ResendInvitation
    \/ SaveFeedback
    \/ BackToList

Spec == Init /\ [][Next]_vars

----------------------------------------------------------------------------
(* Two sessions press "Run Candidate Matching": Streamlit runs each         *)
(* session's script in a thread of its own, over the same database file.   *)

NextConc ==
    \E w \in Workers :
        \/ BatchStart(w)
        \/ BatchCheck(w)
        \/ BatchScore(w)
        \/ BatchFinish(w)

SpecConc == Init /\ [][NextConc]_vars

----------------------------------------------------------------------------
(* Direct calls of the DatabaseManager methods on a store with one job     *)
(* and one candidate.  No method of the class raises on its own.           *)

DbRaised == "none"

DbAddMatch ==
    /\ Len(matches) < MaxDbMatches
    /\ \E j \in DOMAIN jobs, c \in DOMAIN candidates, score \in ScoreValues :
        matches' = add_match(matches, j, c, score)
    /\ lastOp' = [NoOp EXCEPT !.op = "add_match", !.match_id = Len(matches) + 1,
                              !.raised = DbRaised]
    /\ UNCHANGED <<jobs, candidates, session, batch, runs, mail, ingest>>

DbUpdateShortlistStatus ==
    /\ \E match_id \in DOMAIN matches, is_shortlisted \in BOOLEAN :
        /\ matches' = update_shortlist_status(matches, match_id, is_shortlisted)
        /\ lastOp' = [op |-> "update_shortlist_status", match_id |-> match_id,
                      value |-> is_shortlisted,
                      was_shortlisted |-> matches[match_id].is_shortlisted,
                      raised |-> DbRaised]
    /\ UNCHANGED <<jobs, candidates, session, batch, runs, mail, ingest>>

DbScheduleInterview ==
    /\ \E match_id \in DOMAIN matches, d \in DateInputs, t \in TimeInputs :
        /\ matches' = schedule_interview(matches, match_id, FormatDatetime(d, t))
        /\ lastOp' = [op |-> "schedule_interview", match_id |-> match_id,
                      value |-> TRUE,
                      was_shortlisted |-> matches[match_id].is_shortlisted,
                      raised |-> DbRaised]
    /\ UNCHANGED <<jobs, candidates, session, batch, runs, mail, ingest>>

DbAddFeedback ==
    /\ \E match_id \in DOMAIN matches, feedback \in FeedbackInputs :
        /\ matches' = add_feedback(matches, match_id, feedback)
        /\ lastOp' = [op |-> "add_feedback", match_id |-> match_id,
                      value |-> TRUE,
                      was_shortlisted |-> matches[match_id].is_shortlisted,
                      raised |-> DbRaised]
    /\ UNCHANGED <<jobs, candidates, session, batch, runs, mail, ingest>>

InitDb ==
    /\ jobs = <<[summary |-> TRUE]>>
    /\ candidates = <<[extracted_data |-> TRUE, email |-> TRUE]>>
    /\ matches = <<>>
    /\ session = [jobs_loaded |-> TRUE, candidates_processed |-> TRUE,
                  schedule_match_id |-> NoId, view_match_id |-> NoId]
    /\ batch = [w \in Workers |-> IdleBatch]
    /\ runs = 0
    /\ lastOp = NoOp
    /\ mail = IdleMail
    /\ ingest = IdleIngest

NextDb ==
    \/ DbAddMatch
    \/ DbUpdateShortlistStatus
    \/ DbScheduleInterview
    \/ DbAddFeedback

SpecDb == InitDb /\ [][NextDb]_vars

----------------------------------------------------------------------------
(* Calls of the email methods, on the store of SpecDb *)

NextEmail ==
    \/ GenerateEmailCall
    \/ GenerateAttempt
    \/ SendGenerated
    \/ SendEmailDirect

SpecEmail == InitDb /\ [][NextEmail]_vars

----------------------------------------------------------------------------
(* Job ingestion on a new database: the jobs file is fixed for a behaviour *)

InitJobs ==
    /\ jobs = <<>>
    /\ candidates = <<>>
    /\ matches = <<>>
    /\ session = FreshSession
    /\ batch = [w \in Workers |-> IdleBatch]
    /\ runs = 0
    /\ lastOp = NoOp
    /\ mail = IdleMail
    /\ \E file \in SeqsUpTo(Titles, MaxFileJobs) :
        ingest = [IdleIngest EXCEPT !.file = file]

NextJobs ==
    \/ LoadJobsStart
    \/ LoadJobsItem
    \/ AddJobForm
    \/ NewSession

SpecJobs == InitJobs /\ [][NextJobs]_vars

----------------------------------------------------------------------------
(* Resume processing on a new database, over any content of the CVs folder *)

InitCvs ==
    /\ jobs = <<>>
    /\ candidates = <<>>
    /\ matches = <<>>
    /\ session = FreshSession
    /\ batch = [w \in Workers |-> IdleBatch]
    /\ runs = 0
    /\ lastOp = NoOp
    /\ mail = IdleMail
    /\ \E folder \in [Paths -> FileStates] :
        ingest = [IdleIngest EXCEPT !.folder = folder]

NextCvs ==
    \/ ProcessCvsStart
    \/ ProcessCvsItem
    \/ UploadCv
    \/ NewSession

SpecCvs == InitCvs /\ [][NextCvs]_vars

----------------------------------------------------------------------------
(* Listings of a matches table of up to MaxListed rows written at times up *)
(* to MaxTime (CURRENT_TIMESTAMP has a resolution of one second, so rows   *)
(* may share their created_at), over two jobs and two candidates.          *)

MaxListed == 2
MaxTime == 2

ListedRows ==
    [job_id : 1..2, candidate_id : 1..2, match_score : ScoreValues,
     created_at : 1..MaxTime,
     is_shortlisted : {FALSE}, interview_scheduled : {FALSE},
     interview_date : {NULL}, feedback : {NULL}]

\* ids are handed out in the order of the inserts
ListedTables ==
    {ms \in SeqsUpTo(ListedRows, MaxListed) :
        \A i, k \in DOMAIN ms : i < k => ms[i].created_at <= ms[k].created_at}

InitList ==
    /\ jobs = <<[summary |-> TRUE], [summary |-> TRUE]>>
    /\ candidates = <<[extracted_data |-> TRUE, email |-> TRUE],
                      [extracted_data |-> TRUE, email |-> TRUE]>>
    /\ matches \in ListedTables
    /\ session = [jobs_loaded |-> TRUE, candidates_processed |-> TRUE,
                  schedule_match_id |-> NoId, view_match_id |-> NoId]
    /\ batch = [w \in Workers |-> IdleBatch]
    /\ runs = 0
    /\ lastOp = NoOp
    /\ mail = IdleMail
    /\ ingest = IdleIngest

\* db.get_matches(job_id, candidate_id), None being NoId
DbGetMatches ==
    /\ \E job_id \in {NoId} \cup DOMAIN jobs,
          candidate_id \in {NoId} \cup DOMAIN candidates :
        lastOp' = [op |-> "get_matches", job_id |-> job_id,
                   candidate_id |-> candidate_id,
                   result |->
                       IF job_id # NoId /\ candidate_id # NoId
                       THEN get_matches(matches, job_id, candidate_id)
                       ELSE IF job_id # NoId
                       THEN get_matches_by_job(matches, candidates, job_id)
                       ELSE IF candidate_id # NoId
                       THEN get_matches_by_candidate(matches, jobs, candidate_id)
                       ELSE get_matches_all(matches, jobs, candidates),
                   raised |-> DbRaised]
    /\ UNCHANGED <<jobs, candidates, matches, session, batch, runs, mail, ingest>>

NextList == DbGetMatches

SpecList == InitList /\ [][NextList]_vars

----------------------------------------------------------------------------
(* From a new database to the matches: ingestion of the jobs file and of   *)
(* the CVs folder, jobs typed into the form, and the match batch, one      *)
(* handler at a time, while the store holds at most MaxPairs (job,         *)
(* candidate) pairs.                                                       *)

InitStore ==
    /\ jobs = <<>>
    /\ candidates = <<>>
    /\ matches = <<>>
    /\ session = FreshSession
    /\ batch = [w \in Workers |-> IdleBatch]
    /\ runs = 0
    /\ lastOp = NoOp
    /\ mail = IdleMail
    /\ \E file \in SeqsUpTo(Titles, MaxFileJobs), folder \in [Paths -> FileStates] :
        ingest = [IdleIngest EXCEPT !.file = file, !.folder = folder]

NextStore ==
    \/ AllIdle /\ LoadJobsStart
    \/ LoadJobsItem /\ Len(jobs') * Len(candidates') <= MaxPairs
    \/ AllIdle /\ AddJobForm /\ Len(jobs') * Len(candidates') <= MaxPairs
    \/ AllIdle /\ ProcessCvsStart
    \/ ProcessCvsItem /\ Len(jobs') * Len(candidates') <= MaxPairs
    \/ AllIdle /\ NewSession
    \/ ingest.pc # "run" /\ BatchStart(1)
    \/ BatchCheck(1)
    \/ BatchScore(1)
    \/ BatchFinish(1)

SpecStore == InitStore /\ [][NextStore]_vars

----------------------------------------------------------------------------
(* Properties *)

SamePair(r, job_id, candidate_id) ==
    r.job_id = job_id /\ r.candidate_id = candidate_id

\* the rows the run of worker 1 found in the table when it started
RowsBeforeRun == 1..batch[1].startLen

\* the rows written since the run of worker 1 started
RowsOfRun == (batch[1].startLen + 1)..Len(matches)

\* C1: with the handlers run one at a time (match batch, shortlist, schedule,
\* feedback), no two Match rows have the same (job_id, candidate_id).
UniqueMatchPerPair ==
    \A i, k \in DOMAIN matches :
        i # k => ~SamePair(matches[i], matches[k].job_id, matches[k].candidate_id)

\* C1 witness: a later batch run has added a second pair to a table whose
\* first match has been shortlisted, scheduled and given feedback.
UniqueMatchPerPairReached ==
    /\ batch[1].pc = "done"
    /\ batch[1].startLen >= 1
    /\ Len(matches) > batch[1].startLen
    /\ \E i \in RowsBeforeRun :
        /\ matches[i].is_shortlisted
        /\ matches[i].interview_scheduled
        /\ matches[i].feedback # NULL

\* C2 as stated: when a second batch run has completed, every pair whose job
\* has a summary and whose candidate has a profile has exactly one Match row
\* and the second run made no scoring call for it.
TwoRunsLeaveExactlyOneMatch ==
    (batch[1].pc = "done" /\ runs = 1) =>
        \A j \in DOMAIN jobs, c \in DOMAIN candidates :
            (jobs[j].summary /\ candidates[c].extracted_data) =>
                /\ Cardinality({i \in DOMAIN matches : SamePair(matches[i], j, c)}) = 1
                /\ \A call \in batch[1].calls : ~SamePair(call, j, c)

\* C2 amended: a batch run makes no scoring call and writes no row for a pair
\* that had a Match row when the run started, and no pair ever has more than
\* one row.
RunSkipsMatchedPairs ==
    /\ \A call \in batch[1].calls : \A i \in RowsBeforeRun :
            ~SamePair(matches[i], call.job_id, call.candidate_id)
    /\ \A i \in RowsBeforeRun : \A k \in RowsOfRun :
            ~SamePair(matches[i], matches[k].job_id, matches[k].candidate_id)
    /\ \A j \in DOMAIN jobs, c \in DOMAIN candidates :
            Cardinality({i \in DOMAIN matches : SamePair(matches[i], j, c)}) <= 1

\* C2 witness: a second run has completed over a table that already held two
\* matches, without a scoring call and without a new row.
SecondRunIsNoOp ==
    /\ batch[1].pc = "done"
    /\ runs = 1
    /\ batch[1].startLen = 2
    /\ Len(matches) = 2
    /\ batch[1].calls = {}

\* C3: when two batch runs interleave, no (job_id, candidate_id) pair gets
\* two Match rows.
UniqueMatchPerPairInterleaved ==
    \A j \in DOMAIN jobs, c \in DOMAIN candidates :
        Cardinality({i \in DOMAIN matches : SamePair(matches[i], j, c)}) <= 1

\* C4: every persisted Match has 0 <= match_score <= 100.
MatchScoreInRange ==
    \A i \in DOMAIN matches :
        matches[i].match_score >= 0 /\ matches[i].match_score <= 100

\* C5: every Match with interview_scheduled has is_shortlisted.
ScheduledImpliesShortlisted ==
    \A i \in DOMAIN matches :
        matches[i].interview_scheduled => matches[i].is_shortlisted

\* C5 witness: an interview scheduled from the Interview Scheduling page
\* beside a match that is not shortlisted.
ScheduledBesideUnshortlisted ==
    /\ \E i \in DOMAIN matches :
        /\ matches[i].interview_scheduled
        /\ matches[i].feedback =
              <<"Interview scheduled for", "2025-01-10", "10:00", "Email sent to candidate.">>
    /\ \E k \in DOMAIN matches : ~matches[k].is_shortlisted

\* C6: interview_date is non-null exactly when interview_scheduled, and the
\* stored date is the date and time of the schedule form.
InterviewDateIffScheduled ==
    \A i \in DOMAIN matches :
        /\ (matches[i].interview_date # NULL) <=> matches[i].interview_scheduled
        /\ matches[i].interview_scheduled =>
              \E d \in DateInputs, t \in TimeInputs :
                  matches[i].interview_date = FormatDatetime(d, t)

\* C6 witness: one match scheduled with its date, another with neither.
ScheduledWithDateReached ==
    /\ \E i \in DOMAIN matches :
        /\ matches[i].interview_scheduled
        /\ matches[i].interview_date = <<"2025-01-10", "10:00">>
    /\ \E k \in DOMAIN matches :
        /\ ~matches[k].interview_scheduled
        /\ matches[k].interview_date = NULL

\* C7: schedule_interview on a Match that is not shortlisted raises
\* InvalidStateTransition and leaves the table as it was.
ScheduleRejectsUnshortlisted ==
    [][(/\ lastOp'.op = "schedule_interview"
        /\ lastOp'.match_id \in DOMAIN matches
        /\ ~matches[lastOp'.match_id].is_shortlisted)
       => (lastOp'.raised = "InvalidStateTransition" /\ matches' = matches)]_vars

\* C8: no step removes a Match row, clears is_shortlisted or clears
\* interview_scheduled.
FlagsMonotonic ==
    [][\A i \in DOMAIN matches :
          /\ i \in DOMAIN matches'
          /\ matches[i].is_shortlisted => matches'[i].is_shortlisted
          /\ matches[i].interview_scheduled => matches'[i].interview_scheduled]_vars

\* C8 witness: both flags still set after feedback was saved over the
\* scheduling note and a later batch run has completed.
FlagsKeptAfterLaterOps ==
    /\ batch[1].pc = "done"
    /\ \E i \in RowsBeforeRun :
        /\ matches[i].is_shortlisted
        /\ matches[i].interview_scheduled
        /\ matches[i].feedback = <<"text">>

\* C9: update_shortlist_status(id, True) on a Match that is already
\* shortlisted raises nothing and leaves all three tables as they were.
ShortlistIdempotent ==
    [][(/\ lastOp'.op = "update_shortlist_status"
        /\ lastOp'.value
        /\ lastOp'.match_id \in DOMAIN matches
        /\ matches[lastOp'.match_id].is_shortlisted)
       => (/\ lastOp'.raised = "none"
           /\ matches' = matches
           /\ jobs' = jobs
           /\ candidates' = candidates)]_vars

\* C9 witness: the update has just run with True on a match that was already
\* shortlisted and carries feedback, in a table of two rows.
RepeatedShortlistReached ==
    /\ lastOp.op = "update_shortlist_status"
    /\ lastOp.value
    /\ lastOp.was_shortlisted
    /\ Len(matches) = 2
    /\ matches[lastOp.match_id].is_shortlisted
    /\ matches[lastOp.match_id].feedback # NULL

\* C10: a scoring call that failed (service error or unparseable text) or
\* whose answer has no match_score leaves no Match row for its pair.
FailedScoringWritesNoMatch ==
    \A call \in batch[1].calls :
        call.kind \in {"error", "missing"} =>
            \A i \in RowsOfRun :
                ~SamePair(matches[i], call.job_id, call.candidate_id)

\* C11: every Match row refers to a job whose summary is present and to a
\* candidate whose extracted profile is present.
MatchRefersToExtractedPair ==
    \A i \in DOMAIN matches :
        /\ matches[i].job_id \in DOMAIN jobs
        /\ matches[i].candidate_id \in DOMAIN candidates
        /\ jobs[matches[i].job_id].summary
        /\ candidates[matches[i].candidate_id].extracted_data

\* C11 witness: a batch run has completed and written a match over a store
\* that also holds a job without summary or a candidate without profile.
BatchSkippedUnextracted ==
    /\ batch[1].pc = "done"
    /\ RowsOfRun # {}
    /\ \/ \E j \in DOMAIN jobs : ~jobs[j].summary
       \/ \E c \in DOMAIN candidates : ~candidates[c].extracted_data

\* C12: when the first three answers of the generation service are invalid
\* (missing subject or body, unparseable, service error), the call has
\* returned after exactly 3 attempts with success false, an error and no
\* content, and nothing was handed to the transport; and a call that
\* reached the service never gives up after fewer than 3 attempts.
GenerationStopsAfterThreeFailures ==
    mail.op \in GenerateOps =>
        /\ (/\ Len(mail.answers) >= 3
            /\ \A k \in 1..3 : mail.answers[k] # "valid")
           => /\ mail.pc = "returned"
              /\ Len(mail.answers) = 3
              /\ ~mail.result.success
              /\ mail.result.error
              /\ mail.result.email_content = NULL
              /\ mail.handed = 0
              /\ mail.smtp = 0
        /\ (/\ mail.pc = "returned"
            /\ mail.raised = "none"
            /\ \A k \in DOMAIN mail.answers : mail.answers[k] # "valid")
           => Len(mail.answers) = 3

\* C12 witness: a call for a candidate with an address has returned after
\* three answers without subject.
ThreeFailuresReached ==
    /\ mail.op = "generate_interview_email"
    /\ mail.pc = "returned"
    /\ mail.recipient = [tag |-> "str", val |-> <<"a">>]
    /\ mail.answers = <<"missing_subject", "missing_subject", "missing_subject">>

\* C13: when the content was generated and the transport then returned
\* failure or raised, the call has returned success false with an error and
\* the content of its last generation attempt, after one transport call, no
\* further generation and no exception.
TransportFailureKeepsContent ==
    (mail.op \in GenerateOps /\ mail.transport \in {"smtp_error", "ValueError"}) =>
        /\ mail.pc = "returned"
        /\ ~mail.result.success
        /\ mail.result.error
        /\ mail.answers[Len(mail.answers)] = "valid"
        /\ mail.result.email_content = [attempt |-> Len(mail.answers)]
        /\ mail.handed = 1
        /\ mail.raised = "none"

\* C13 witness: the second generation attempt was valid and the SMTP
\* exchange for the invitation then failed.
TransportFailureReached ==
    /\ mail.op = "generate_interview_email"
    /\ mail.answers = <<"missing_body", "valid">>
    /\ mail.transport = "smtp_error"
    /\ mail.smtp = 1

\* C14: with no recipient (None, the empty string or the empty list) the
\* transport is never invoked, and once an attempt was valid the call has
\* returned success true with the content of that attempt.
NoRecipientNoDispatch ==
    (mail.op \in GenerateOps /\ mail.recipient.val = <<>>) =>
        /\ mail.handed = 0
        /\ mail.smtp = 0
        /\ mail.transport = "none"
        /\ (\E k \in DOMAIN mail.answers : mail.answers[k] = "valid") =>
              /\ mail.pc = "returned"
              /\ mail.result.success
              /\ ~mail.result.error
              /\ mail.result.email_content = [attempt |-> Len(mail.answers)]

\* C14 witness: a call without recipient has returned its content after one
\* failed and one valid attempt.
NoRecipientContentReached ==
    /\ mail.op = "generate_interview_email"
    /\ mail.recipient = NoRecipient
    /\ mail.pc = "returned"
    /\ mail.answers = <<"unparseable", "valid">>
    /\ mail.result.success

\* the recipient input holds no address: None, a string of commas and
\* blanks only (the empty string included), a list of blank strings only
\* (the empty list included)
NoAddress(r) ==
    \/ r.tag = "none"
    \/ r.tag = "str" /\ \A i \in DOMAIN r.val : r.val[i] \in {",", " "}
    \/ r.tag = "list" /\ \A i \in DOMAIN r.val :
                            \A k \in DOMAIN r.val[i] : r.val[i][k] = " "

\* C15: send_email with a recipient input that holds no address raises
\* ValueError and opens no SMTP connection, whether it is called by itself
\* or through the scheduler.
EmptyRecipientsRaiseBeforeSmtp ==
    NoAddress(mail.recipient) =>
        /\ mail.smtp = 0
        /\ mail.transport \in {"none", "ValueError"}
        /\ mail.op = "send_email" =>
              /\ mail.raised = "ValueError"
              /\ ~mail.result.success

\* C15 witness: send_email has raised for the string ", ".
BlankRecipientRaised ==
    /\ mail.op = "send_email"
    /\ mail.recipient = [tag |-> "str", val |-> <<",", " ">>]
    /\ mail.raised = "ValueError"
    /\ mail.handed = 1

\* C16: a completed ingestion of the jobs file that follows an earlier
\* completed ingestion of the same file has made no summarising call and no
\* job stored since it started came from the file; after a completed
\* ingestion every title of the file is stored under exactly that spelling;
\* and no two jobs that came from the file have the same title.
JobsIngestedTwiceNoDuplicate ==
    /\ (ingest.op = "load_jobs" /\ ingest.pc = "done" /\ ingest.loads >= 2) =>
          /\ \A i \in DOMAIN jobs : i > ingest.startLen => jobs[i].via # "file"
          /\ ingest.calls = {}
    /\ (ingest.op = "load_jobs" /\ ingest.pc = "done") =>
          \A k \in DOMAIN ingest.file :
              \E i \in DOMAIN jobs : jobs[i].title = ingest.file[k]
    /\ \A i, k \in DOMAIN jobs :
          (i # k /\ jobs[i].via = "file" /\ jobs[k].via = "file") =>
              jobs[i].title # jobs[k].title

\* C16 witness: the file <<"Dev", "dev">> has been ingested a second time,
\* both spellings are stored, and the second run added nothing.
JobsIngestedTwiceReached ==
    /\ ingest.op = "load_jobs"
    /\ ingest.pc = "done"
    /\ ingest.loads >= 2
    /\ ingest.file = <<"Dev", "dev">>
    /\ Cardinality({i \in DOMAIN jobs : jobs[i].via = "file"}) = 2
    /\ ingest.startLen = Len(jobs)

\* the candidate rows the ingestion run found when it started
CvRowsBeforeRun == 1..ingest.startLen

\* C17: a bulk run makes no extraction call and stores no row for a path
\* that was stored when it started, no two rows stored by bulk runs have the
\* same path, and a completed run that follows an earlier completed run has
\* made no extraction call and stored nothing.
CvRunSkipsStoredPaths ==
    /\ ingest.op = "process_cvs" =>
          /\ \A cv_path \in ingest.calls : \A i \in CvRowsBeforeRun :
                 candidates[i].cv_path # cv_path
          /\ \A i \in CvRowsBeforeRun : \A k \in DOMAIN candidates :
                 (k > ingest.startLen /\ candidates[k].via = "bulk") =>
                     candidates[k].cv_path # candidates[i].cv_path
    /\ \A i, k \in DOMAIN candidates :
          (i # k /\ candidates[i].via = "bulk" /\ candidates[k].via = "bulk") =>
              candidates[i].cv_path # candidates[k].cv_path
    /\ (ingest.op = "process_cvs" /\ ingest.pc = "done" /\ ingest.loads >= 2) =>
          /\ ingest.calls = {}
          /\ \A k \in DOMAIN candidates :
                 k > ingest.startLen => candidates[k].via # "bulk"

\* C17 witness: a second bulk run over a folder of two PDFs has completed
\* without a call, on a table that held both paths when it started.
SecondCvRunIsNoOp ==
    /\ ingest.op = "process_cvs"
    /\ ingest.pc = "done"
    /\ ingest.loads >= 2
    /\ Len(ingest.items) = 2
    /\ ingest.startLen >= 2
    /\ ingest.calls = {}

\* C18: no two candidate rows have the same cv_path.
OneProfilePerCvPath ==
    \A i, k \in DOMAIN candidates :
        i # k => candidates[i].cv_path # candidates[k].cv_path

\* C19: a bulk run that stopped on a failing item has no later item left
\* unprocessed.
BatchContinuesAfterItemFailure ==
    (ingest.op = "process_cvs" /\ ingest.pc = "failed") =>
        ingest.pos = Len(ingest.items)

\* C20: a step of either schedule form leaves its match with
\* interview_scheduled set and interview_date set to the submitted date and
\* time, whatever the email step did.
ScheduleSurvivesEmailStep ==
    [][/\ \A m \in DOMAIN matches :
             ScheduleFromResults(m) =>
                 /\ matches'[m].interview_scheduled
                 /\ \E d \in DateInputs, t \in TimeInputs :
                        matches'[m].interview_date = FormatDatetime(d, t)
       /\ SubmitSchedule =>
             /\ matches'[session.schedule_match_id].interview_scheduled
             /\ \E d \in DateInputs, t \in TimeInputs :
                    matches'[session.schedule_match_id].interview_date
                        = FormatDatetime(d, t)]_vars

\* C20 witness: the email of a submitted schedule could not be generated
\* (no activity note, the selection still in the session) and the match is
\* scheduled with its date.
ScheduledDespiteEmailFailure ==
    /\ session.schedule_match_id # NoId
    /\ matches[session.schedule_match_id].interview_scheduled
    /\ matches[session.schedule_match_id].interview_date # NULL
    /\ matches[session.schedule_match_id].feedback = NULL

\* a listing is in descending order of a column
Descending(rows, col) ==
    \A i, k \in DOMAIN rows : i < k => rows[i][col] >= rows[k][col]

\* C21: get_matches returns its rows in descending match_score order when
\* only a job is given, and in descending created_at order when nothing or
\* only a candidate is given.
ListMatchesOrdered ==
    lastOp.op = "get_matches" =>
        IF lastOp.job_id # NoId /\ lastOp.candidate_id = NoId
        THEN Descending(lastOp.result, "match_score")
        ELSE IF lastOp.job_id = NoId
        THEN Descending(lastOp.result, "created_at")
        ELSE TRUE

\* C22: add_feedback on a Match leaves its is_shortlisted,
\* interview_scheduled, interview_date, match_score and ids, and every other
\* Match, as they were, and stores the feedback text.
FeedbackKeepsWorkflowState ==
    [][lastOp'.op = "add_feedback" =>
          /\ Len(matches') = Len(matches)
          /\ \A i \in DOMAIN matches :
                IF i = lastOp'.match_id
                THEN /\ matches'[i] = [matches[i] EXCEPT !.feedback = matches'[i].feedback]
                     /\ matches'[i].feedback \in FeedbackInputs
                ELSE matches'[i] = matches[i]
          /\ jobs' = jobs
          /\ candidates' = candidates]_vars

\* C22 witness: feedback has just been recorded on a match that is
\* shortlisted and scheduled, beside a second match without feedback.
FeedbackOnScheduledReached ==
    /\ lastOp.op = "add_feedback"
    /\ Len(matches) = 2
    /\ matches[lastOp.match_id].feedback = <<"text">>
    /\ matches[lastOp.match_id].is_shortlisted
    /\ matches[lastOp.match_id].interview_scheduled
    /\ matches[lastOp.match_id].interview_date # NULL
    /\ \E k \in DOMAIN matches : matches[k].feedback = NULL

\* C23: every Match with non-null feedback has is_shortlisted.
FeedbackImpliesShortlisted ==
    \A i \in DOMAIN matches :
        matches[i].feedback # NULL => matches[i].is_shortlisted

\* C23 witness: feedback saved through the feedback form on one match,
\* beside a match that is not shortlisted and has none.
FeedbackBesideUnshortlisted ==
    /\ \E i \in DOMAIN matches :
        /\ matches[i].feedback = <<"text">>
        /\ matches[i].is_shortlisted
    /\ \E k \in DOMAIN matches :
        /\ ~matches[k].is_shortlisted
        /\ matches[k].feedback = NULL

\* C25: an item step of an ingestion run whose summarize / extract call
\* failed has made exactly one service call, has not raised, has stored the
\* job or candidate with the structured field absent, and has moved on to
\* the next item or to the end of the run.
ExtractionFailureIsAbsorbed ==
    [][(ingest.pc = "run" /\ ingest'.last = "absent") =>
          /\ ingest'.service_calls = ingest.service_calls + 1
          /\ ingest'.pc # "failed"
          /\ ingest'.pos = ingest.pos + 1 \/ ingest'.pc = "done"
          /\ IF ingest.op = "load_jobs"
             THEN /\ Len(jobs') = Len(jobs) + 1
                  /\ jobs'[Len(jobs')].title = ingest.items[ingest.pos]
                  /\ ~jobs'[Len(jobs')].summary
             ELSE /\ Len(candidates') = Len(candidates) + 1
                  /\ candidates'[Len(candidates')].cv_path = ingest.items[ingest.pos]
                  /\ ~candidates'[Len(candidates')].extracted_data]_vars

\* C24: after every step each Match's job_id is the id of a stored job and
\* its candidate_id the id of a stored candidate, and the step has removed
\* or renumbered no job and no candidate.
ReferentialIntegrity ==
    [][/\ \A i \in DOMAIN matches' :
             /\ matches'[i].job_id \in DOMAIN jobs'
             /\ matches'[i].candidate_id \in DOMAIN candidates'
       /\ Len(jobs') >= Len(jobs)
       /\ \A j \in DOMAIN jobs : jobs'[j] = jobs[j]
       /\ Len(candidates') >= Len(candidates)
       /\ \A c \in DOMAIN candidates : candidates'[c] = candidates[c]]_vars

\* C24 witness: a completed batch run has left a match, and the jobs table
\* also holds a job typed into the form that no match refers to.
MatchesBesideLaterJob ==
    /\ runs = 1
    /\ AllIdle
    /\ matches # <<>>
    /\ \E j \in DOMAIN jobs :
        /\ jobs[j].via = "form"
        /\ \A i \in DOMAIN matches : matches[i].job_id # j

\* C26: a generation call makes its service calls one after the other and
\* stops at the first valid answer, so no answer before the last is valid;
\* once the call is over it has returned a result without raising, after
\* between 1 and 3 service calls, and when an answer was valid the number
\* of calls is the index of that answer.
GenerationCallsCounted ==
    mail.op \in GenerateOps =>
        /\ \A k \in DOMAIN mail.answers :
              valid_email_content(mail.answers[k]) => k = Len(mail.answers)
        /\ mail.pc = "generate" =>
              \A k \in DOMAIN mail.answers : ~valid_email_content(mail.answers[k])
        /\ mail.pc = "returned" =>
              /\ mail.raised = "none"
              /\ Len(mail.answers) >= 1
              /\ Len(mail.answers) <= max_retries
              /\ mail.result.success \/ mail.result.error

\* C27: a step never changes the interview_date of a Match that already
\* has one.
InterviewDateKept ==
    [][\A i \in DOMAIN matches :
          matches[i].interview_date # NULL =>
              matches'[i].interview_date = matches[i].interview_date]_vars

\* C28: every step in which a page calls generate_interview_email is for a
\* Match whose interview_scheduled was already true in the store when the
\* call was made and is true after the step, and the call invokes the
\* transport at most once; so no invitation is generated or dispatched for a
\* Match whose schedule write has not happened.
InvitationOnlyForScheduled ==
    [][(mail' # mail /\ mail'.caller # "none") =>
          /\ mail'.match_id \in DOMAIN matches'
          /\ mail'.scheduled_in_store
          /\ matches'[mail'.match_id].interview_scheduled
          /\ matches'[mail'.match_id].interview_date # NULL
          /\ mail'.handed <= 1]_vars

\* C28 witness: "Resend Interview Invitation" has handed an invitation to
\* the transport for the match being viewed, which is scheduled.
InvitationResent ==
    /\ mail.caller = "resend"
    /\ mail.handed = 1
    /\ mail.match_id = session.view_match_id
    /\ matches[mail.match_id].interview_scheduled

\* C29: a step of either schedule form touches the feedback of no other
\* Match; when its email step reports success the Match's feedback is
\* afterwards a scheduling note for the date just written, whatever it held
\* before; when the email step fails the Match's feedback is what it was.
ScheduleNoteFollowsEmail ==
    [][((\E match_id \in DOMAIN matches : ScheduleFromResults(match_id))
            \/ SubmitSchedule) =>
          LET m == mail'.match_id
          IN  /\ \A i \in DOMAIN matches \ {m} :
                    matches'[i].feedback = matches[i].feedback
              /\ mail'.result.success =>
                    /\ matches'[m].feedback # NULL
                    /\ matches'[m].feedback[1] = "Interview scheduled for"
                    /\ <<matches'[m].feedback[2], matches'[m].feedback[3]>>
                           = matches'[m].interview_date
              /\ ~mail'.result.success =>
                    matches'[m].feedback = matches[m].feedback]_vars

\* C29 witness: the Interview Scheduling form was submitted for a match that
\* held typed feedback, its email step failed, and the feedback is still the
\* typed text.
FeedbackKeptAfterFailedEmail ==
    /\ mail.caller = "scheduling"
    /\ ~mail.result.success
    /\ mail.match_id \in DOMAIN matches
    /\ matches[mail.match_id].feedback = <<"text">>
    /\ session.view_match_id = NoId

====
